---------------------------- MODULE Spec2Model ----------------------------
(***************************************************************************)
(* Model of the three sample-data scripts of FluffyViz:                    *)
(*   create_wildchat_subset.py        the stratified subset sampler        *)
(*   transform_wildchat_dataset.py    flattener A (message-list source)    *)
(*   transform_huggingface_dataset.py flattener B (wide-column source)     *)
(* Each script runs once, sequentially.  Text is a sequence of one-        *)
(* character strings, so that str.strip, len, int() and str() are          *)
(* computed rather than assumed.                                           *)
(***************************************************************************)
EXTENDS Integers, Sequences, FiniteSets, TLC

VARIABLES
    pc,                 \* position of the running script
    input_file,         \* sampler: the CSV it reads, [header, lines]
    fieldnames,         \* sampler: reader.fieldnames
    conversations,      \* sampler: dict session_id -> rows, in insertion order
    single_turn,        \* sampler: list of session ids with exactly one row
    multi_turn,         \* sampler: list of the other session ids
    target_single,      \* sampler: local target_single
    target_multi,       \* sampler: local target_multi
    selected_sessions,  \* sampler: set(selected_single + selected_multi)
    output_rows,        \* all three scripts: the accumulated output rows
    output_file,        \* sampler: the CSV it writes, [header, lines]
    rerun_file,         \* sampler: the CSV a second run on the same input writes
    idx,                \* flatteners: index of the next source record
    turn_id_counter,    \* flatteners: local turn_id_counter
    row,                \* flatteners: the source record processed last
    turns               \* flatteners: the turns extracted from that record

vars == <<pc, input_file, fieldnames, conversations, single_turn, multi_turn,
          target_single, target_multi, selected_sessions, output_rows,
          output_file, rerun_file, idx, turn_id_counter, row, turns>>

samplerVars == <<input_file, fieldnames, conversations, single_turn, multi_turn,
                 target_single, target_multi, selected_sessions, output_file,
                 rerun_file>>

flattenerVars == <<idx, turn_id_counter, row, turns>>

-----------------------------------------------------------------------------
(* Bounds of the model.                                                    *)

\* rows of the sampler's input table
MaxRows == 4
\* The sampler's two targets.  The script sets 300 and 200; the model scales
\* them down so that a pool of a few sessions can exceed its target.  The
\* script only compares a pool's length with the target and passes the target
\* to random.sample.
TargetSingle == 2
TargetMulti == 1

-----------------------------------------------------------------------------
(* Generic helpers.                                                        *)

Range(s) == {s[i] : i \in 1..Len(s)}

Min(a, b) == IF a < b THEN a ELSE b

\* the sequences over S of length at most n
SeqsUpTo(S, n) == UNION {[1..k -> S] : k \in 0..n}

\* all orders in which the elements of the finite set S can be listed
Orderings(S) ==
    {f \in [1..Cardinality(S) -> S] : \A i, j \in 1..Cardinality(S) : f[i] = f[j] => i = j}

\* position of the first occurrence of x in s (0 when absent)
IndexOf(s, x) ==
    IF \E i \in 1..Len(s) : s[i] = x
    THEN CHOOSE i \in 1..Len(s) : s[i] = x /\ \A j \in 1..(i - 1) : s[j] # x
    ELSE 0

\* str(n) for n >= 0: the decimal digits, most significant first
RECURSIVE str(_)
str(n) == IF n < 10 THEN <<n>> ELSE str(n \div 10) \o <<n % 10>>

\* int(s) for a string of decimal digits
RECURSIVE int(_)
int(s) == IF Len(s) = 0 THEN 0
          ELSE 10 * int(SubSeq(s, 1, Len(s) - 1)) + s[Len(s)]

-----------------------------------------------------------------------------
(* The turn-level table.                                                   *)

\* the header both flatteners write (the sampler reads it back)
FIELDNAMES ==
    <<"turn_id", "session_id", "user_id", "timestamp", "user_message",
      "assistant_message", "model", "prompt_tokens", "completion_tokens",
      "total_tokens", "latency_ms", "cost_usd">>

\* a table with fewer columns in another order
ShortHeader == <<"session_id", "timestamp", "turn_id", "user_message">>

Headers == {FIELDNAMES, ShortHeader}

SessionIds == {"s1", "s2", "s3"}

\* turn ids a table may carry: one- and two-digit numbers
TurnIdPool == (1..MaxRows) \cup {10}

\* the cell of the k-th line in a column other than turn_id and session_id
Cell(col, k) == col \o "_" \o ToString(k)

\* the k-th line of a table: its cells in header order
TableLine(header, tid, sid, k) ==
    [i \in 1..Len(header) |->
        IF header[i] = "turn_id" THEN str(tid)
        ELSE IF header[i] = "session_id" THEN sid
        ELSE Cell(header[i], k)]

\* Tables a flattener can have written: turn ids ascend down the file (they are
\* unique; the flatteners number densely, a table with gaps is a subset of
\* one), sessions may interleave.
TablesOfLength(n) ==
    {[header |-> h,
      lines |-> [k \in 1..n |-> TableLine(h, tids[k], sids[k], k)]] :
        h \in Headers,
        tids \in {t \in [1..n -> TurnIdPool] : \A i \in 1..(n - 1) : t[i] < t[i + 1]},
        sids \in [1..n -> SessionIds]}

InputTables == UNION {TablesOfLength(n) : n \in 0..MaxRows}

NoFile == [header |-> <<>>, lines |-> <<>>]

-----------------------------------------------------------------------------
(* Sampler: create_wildchat_subset.py.                                     *)

\* csv.DictReader: one dict per line, keyed by the header
DictReaderRow(header, line) ==
    [c \in Range(header) |-> line[IndexOf(header, c)]]

DictReader(file) ==
    [k \in 1..Len(file.lines) |-> DictReaderRow(file.header, file.lines[k])]

\* csv.DictWriter.writerow: the dict's cells in fieldnames order
DictWriterRow(names, r) == [i \in 1..Len(names) |-> r[names[i]]]

\* mutant: the writer is given the flatteners' fixed header, not the input's;
\* a missing key is written as the empty restval
DictWriterFixedHeader(names, rows) ==
    [header |-> FIELDNAMES,
     lines |-> [k \in 1..Len(rows) |->
                  [i \in 1..Len(FIELDNAMES) |->
                      IF FIELDNAMES[i] \in DOMAIN rows[k]
                      THEN rows[k][FIELDNAMES[i]] ELSE ""]]]

DictWriter(names, rows) ==
    [header |-> names,
     lines |-> [k \in 1..Len(rows) |-> DictWriterRow(names, rows[k])]]

EmptyDict == [keys |-> <<>>, rows |-> [s \in {} |-> <<>>]]

\* mutant: conversations[session_id] = [row], the list is replaced
RECURSIVE GroupBySessionOverwrite(_, _)
GroupBySessionOverwrite(rows, n) ==
    IF n = 0 THEN EmptyDict
    ELSE LET c == GroupBySessionOverwrite(rows, n - 1)
             r == rows[n]
             s == r["session_id"]
         IN IF s \in Range(c.keys)
            THEN [c EXCEPT !.rows[s] = <<r>>]
            ELSE [keys |-> Append(c.keys, s),
                  rows |-> [k \in Range(c.keys) \cup {s} |->
                               IF k = s THEN <<r>> ELSE c.rows[k]]]

\* conversations[session_id].append(row) over the first n rows; a dict keeps
\* its keys in insertion order
RECURSIVE GroupBySession(_, _)
GroupBySession(rows, n) ==
    IF n = 0 THEN EmptyDict
    ELSE LET c == GroupBySession(rows, n - 1)
             r == rows[n]
             s == r["session_id"]
         IN IF s \in Range(c.keys)
            THEN [c EXCEPT !.rows[s] = Append(@, r)]
            ELSE [keys |-> Append(c.keys, s),
                  rows |-> [k \in Range(c.keys) \cup {s} |->
                               IF k = s THEN <<r>> ELSE c.rows[k]]]

IsSingleTurn(convs, s) == Len(convs.rows[s]) = 1

SingleTurnOf(convs) == SelectSeq(convs.keys, LAMBDA s : IsSingleTurn(convs, s))

MultiTurnOf(convs) == SelectSeq(convs.keys, LAMBDA s : ~IsSingleTurn(convs, s))

\* the clamp of a target to its pool
ClampTarget(target, pool) == IF Len(pool) < target THEN Len(pool) ELSE target

\* mutant: random.choices(pool, k=k) draws with replacement, so the k draws
\* may repeat
SampleWithReplacement(pool, k) ==
    {S \in SUBSET Range(pool) : Cardinality(S) <= k /\ (k > 0 => S # {})}

\* random.sample(pool, k): k distinct elements of the pool; only their set is
\* used afterwards
SampleSets(pool, k) == {S \in SUBSET Range(pool) : Cardinality(S) = k}

\* output_rows.extend(conversations[session_id]) for the sessions in the
\* order the set yields them
RECURSIVE CollectRows(_, _, _)
CollectRows(convs, order, n) ==
    IF n = 0 THEN <<>>
    ELSE CollectRows(convs, order, n - 1) \o convs.rows[order[n]]

\* the sort key of line 79
SortKey(r) == int(r["turn_id"])

\* insertion of r after every row whose key is not larger: a stable sort
RECURSIVE InsertRow(_, _)
InsertRow(sorted, r) ==
    IF Len(sorted) = 0 THEN <<r>>
    ELSE IF SortKey(sorted[Len(sorted)]) <= SortKey(r) THEN Append(sorted, r)
    ELSE Append(InsertRow(SubSeq(sorted, 1, Len(sorted) - 1), r), sorted[Len(sorted)])

RECURSIVE SortPrefix(_, _)
SortPrefix(rows, n) ==
    IF n = 0 THEN <<>> ELSE InsertRow(SortPrefix(rows, n - 1), rows[n])

\* mutant: the sort is left out
SortOmitted(rows) == rows

\* output_rows.sort(key=lambda x: int(x['turn_id']))
SortByTurnId(rows) == SortPrefix(rows, Len(rows))

\* mutant: enumerate(output_rows) without start=1
RenumberFromZero(rows) ==
    [i \in 1..Len(rows) |-> [rows[i] EXCEPT !["turn_id"] = str(i - 1)]]

\* row['turn_id'] = str(idx) for idx, row in enumerate(output_rows, start=1)
RenumberRows(rows) ==
    [i \in 1..Len(rows) |-> [rows[i] EXCEPT !["turn_id"] = str(i)]]

\* The rows of output_rows are the dict objects conversations holds, so the
\* renumbering shows in conversations too.  Turn ids are unique in the input,
\* hence a row value identifies its object.
RenumberAliased(convs, rows) ==
    [convs EXCEPT !.rows =
        [s \in DOMAIN convs.rows |->
            [j \in 1..Len(convs.rows[s]) |->
                LET r == convs.rows[s][j]
                    i == IndexOf(rows, r)
                IN IF i = 0 THEN r ELSE [r EXCEPT !["turn_id"] = str(i)]]]]

\* lines 22-37
ReadInput ==
    /\ pc = "start"
    /\ fieldnames' = input_file.header
    /\ conversations' = GroupBySession(DictReader(input_file), Len(input_file.lines))
    /\ pc' = "grouped"
    /\ UNCHANGED <<input_file, single_turn, multi_turn, target_single, target_multi,
                   selected_sessions, output_rows, output_file, rerun_file>>
    /\ UNCHANGED flattenerVars

\* lines 39-50
Classify ==
    /\ pc = "grouped"
    /\ single_turn' = SingleTurnOf(conversations)
    /\ multi_turn' = MultiTurnOf(conversations)
    /\ pc' = "classified"
    /\ UNCHANGED <<input_file, fieldnames, conversations, target_single, target_multi,
                   selected_sessions, output_rows, output_file, rerun_file>>
    /\ UNCHANGED flattenerVars

\* lines 52-64
ClampTargets ==
    /\ pc = "classified"
    /\ target_single' = ClampTarget(TargetSingle, single_turn)
    /\ target_multi' = ClampTarget(TargetMulti, multi_turn)
    /\ pc' = "clamped"
    /\ UNCHANGED <<input_file, fieldnames, conversations, single_turn, multi_turn,
                   selected_sessions, output_rows, output_file, rerun_file>>
    /\ UNCHANGED flattenerVars

\* lines 66-71; random.sample raises ValueError when the sample is larger than
\* the population
Sample ==
    /\ pc = "clamped"
    /\ IF target_single > Len(single_turn) \/ target_multi > Len(multi_turn)
       THEN /\ pc' = "ValueError"
            /\ UNCHANGED selected_sessions
       ELSE /\ \E selected_single \in SampleSets(single_turn, target_single),
                  selected_multi \in SampleSets(multi_turn, target_multi) :
                  selected_sessions' = selected_single \cup selected_multi
            /\ pc' = "sampled"
    /\ UNCHANGED <<input_file, fieldnames, conversations, single_turn, multi_turn,
                   target_single, target_multi, output_rows, output_file, rerun_file>>
    /\ UNCHANGED flattenerVars

\* lines 73-76; a set of strings is iterated in an order that differs from run
\* to run
Collect ==
    /\ pc = "sampled"
    /\ \E order \in Orderings(selected_sessions) :
          output_rows' = CollectRows(conversations, order, Len(order))
    /\ pc' = "collected"
    /\ UNCHANGED <<output_file>>
    /\ UNCHANGED <<input_file, fieldnames, conversations, single_turn, multi_turn,
                   target_single, target_multi, selected_sessions, rerun_file>>
    /\ UNCHANGED flattenerVars

\* lines 78-79
SortRows ==
    /\ pc = "collected"
    /\ output_rows' = SortByTurnId(output_rows)
    /\ pc' = "sorted"
    /\ UNCHANGED <<input_file, fieldnames, conversations, single_turn, multi_turn,
                   target_single, target_multi, selected_sessions, output_file,
                   rerun_file>>
    /\ UNCHANGED flattenerVars

\* lines 81-83
Renumber ==
    /\ pc = "sorted"
    /\ output_rows' = RenumberRows(output_rows)
    /\ conversations' = RenumberAliased(conversations, output_rows)
    /\ pc' = "renumbered"
    /\ UNCHANGED <<input_file, fieldnames, single_turn, multi_turn, target_single,
                   target_multi, selected_sessions, output_file, rerun_file>>
    /\ UNCHANGED flattenerVars

\* lines 85-91
WriteOutput ==
    /\ pc = "renumbered"
    /\ output_file' = DictWriter(fieldnames, output_rows)
    /\ pc' = "written"
    /\ UNCHANGED <<input_file, fieldnames, conversations, single_turn, multi_turn,
                   target_single, target_multi, selected_sessions, output_rows,
                   rerun_file>>
    /\ UNCHANGED flattenerVars

\* lines 93-98; line 98 divides by len(selected_sessions)
Summary ==
    /\ pc = "written"
    /\ pc' = IF Cardinality(selected_sessions) = 0 THEN "ZeroDivisionError" ELSE "exit0"
    /\ UNCHANGED samplerVars
    /\ UNCHANGED output_rows
    /\ UNCHANGED flattenerVars

\* the file one whole run writes, given what random.sample returned and the
\* order in which the set of selected sessions is iterated
RunOutput(file, selected, order) ==
    LET convs == GroupBySession(DictReader(file), Len(file.lines))
    IN DictWriter(file.header,
                  RenumberRows(SortByTurnId(CollectRows(convs, order, Len(order)))))

\* A second run on the same input file.  random.seed(42) and the same two pool
\* lists make random.sample return what it returned in the first run; the set
\* is iterated in an order of its own.
Rerun ==
    /\ pc \in {"exit0", "ZeroDivisionError"}
    /\ \E order \in Orderings(selected_sessions) :
          rerun_file' = RunOutput(input_file, selected_sessions, order)
    /\ pc' = IF pc = "exit0" THEN "rerun_exit0" ELSE "rerun_ZeroDivisionError"
    /\ UNCHANGED <<input_file, fieldnames, conversations, single_turn, multi_turn,
                   target_single, target_multi, selected_sessions, output_rows,
                   output_file>>
    /\ UNCHANGED flattenerVars

Init ==
    /\ pc = "start"
    /\ input_file \in InputTables
    /\ fieldnames = <<>>
    /\ conversations = EmptyDict
    /\ single_turn = <<>>
    /\ multi_turn = <<>>
    /\ target_single = TargetSingle
    /\ target_multi = TargetMulti
    /\ selected_sessions = {}
    /\ output_rows = <<>>
    /\ output_file = NoFile
    /\ rerun_file = NoFile
    /\ idx = 0
    /\ turn_id_counter = 1
    /\ row = <<>>
    /\ turns = <<>>

Next ==
    \/ ReadInput
    \/ Classify
    \/ ClampTargets
    \/ Sample
    \/ Collect
    \/ SortRows
    \/ Renumber
    \/ WriteOutput
    \/ Summary
    \/ Rerun

Spec == Init /\ [][Next]_vars

-----------------------------------------------------------------------------
(* Shared by both flatteners.  A flattener row is a record with the        *)
(* columns turn_id .. total_tokens; latency_ms (two random draws) and      *)
(* cost_usd (floating point) are computed from the row and read by         *)
(* nothing, and are left out.  A datetime is a count of ticks since the    *)
(* script's epoch; strftime("%Y-%m-%dT%H:%M:%SZ") keeps whole seconds.     *)

\* resolution of a datetime: ticks in a second
TicksPerSecond == 2

seconds(n) == n * TicksPerSecond

minutes(n) == seconds(60 * n)

hours(n) == minutes(60 * n)

\* the formatted timestamp, as the number of whole seconds it shows
strftime(t) == t \div TicksPerSecond

IsSpace(c) == c \in {" ", "\t", "\n"}

RECURSIVE lstrip(_)
lstrip(text) ==
    IF Len(text) > 0 /\ IsSpace(text[1]) THEN lstrip(Tail(text)) ELSE text

RECURSIVE rstrip(_)
rstrip(text) ==
    IF Len(text) > 0 /\ IsSpace(text[Len(text)])
    THEN rstrip(SubSeq(text, 1, Len(text) - 1)) ELSE text

\* str.strip()
strip(text) == rstrip(lstrip(text))

\* len(text) // 4 if text else 0
estimate_tokens(text) == IF text # <<>> THEN Len(text) \div 4 ELSE 0

\* the token counts of generate_synthetic_metadata
generate_synthetic_metadata(user_message, assistant_message) ==
    [prompt_tokens |-> estimate_tokens(user_message),
     completion_tokens |-> estimate_tokens(assistant_message),
     total_tokens |-> estimate_tokens(user_message) + estimate_tokens(assistant_message)]

\* a key that a source record does not have
Absent == "<absent>"

\* row.get(key, default) for a string field
Get(value, default) == IF value = Absent THEN default ELSE value

\* how many source records a run reads at most
MaxRecords == 3

-----------------------------------------------------------------------------
(* Flattener A: transform_wildchat_dataset.py.                             *)

\* mutant: the turn number is left out of the offset
TurnTimestampAConstant(base_timestamp, turn_num) == base_timestamp + seconds(30)

\* base_timestamp + timedelta(seconds=turn_num * 30)
TurnTimestampA(base_timestamp, turn_num) == base_timestamp + seconds(turn_num * 30)

\* mutant: the pending user message is not cleared after a turn
ExtractStepKeepPending(st, msg, conversation_hash, hashed_ip, model, base_timestamp) ==
    LET content == strip(msg.content)
    IN IF content = <<>> THEN st
       ELSE IF msg.role = "user" THEN [st EXCEPT !.user_message = content]
       ELSE IF msg.role = "assistant" /\ st.user_message # <<>>
       THEN [st EXCEPT
                !.turns = Append(@,
                    [session_id |-> conversation_hash,
                     user_id |-> hashed_ip,
                     timestamp |-> strftime(TurnTimestampA(base_timestamp, st.turn_num)),
                     user_message |-> st.user_message,
                     assistant_message |-> content,
                     model |-> model]
                    @@ generate_synthetic_metadata(st.user_message, content)),
                !.turn_num = @ + 1]
       ELSE st

\* One pass of the loop of lines 84-109.  user_message None is the empty
\* text: the loop only stores non-empty text and only tests truthiness.
ExtractStep(st, msg, conversation_hash, hashed_ip, model, base_timestamp) ==
    LET content == strip(msg.content)
    IN IF content = <<>> THEN st
       ELSE IF msg.role = "user" THEN [st EXCEPT !.user_message = content]
       ELSE IF msg.role = "assistant" /\ st.user_message # <<>>
       THEN [st EXCEPT
                !.turns = Append(@,
                    [session_id |-> conversation_hash,
                     user_id |-> hashed_ip,
                     timestamp |-> strftime(TurnTimestampA(base_timestamp, st.turn_num)),
                     user_message |-> st.user_message,
                     assistant_message |-> content,
                     model |-> model]
                    @@ generate_synthetic_metadata(st.user_message, content)),
                !.user_message = <<>>,
                !.turn_num = @ + 1]
       ELSE st

\* the loop over the first n messages
RECURSIVE ExtractLoop(_, _, _, _, _, _)
ExtractLoop(messages, n, conversation_hash, hashed_ip, model, base_timestamp) ==
    IF n = 0 THEN [turns |-> <<>>, user_message |-> <<>>, turn_num |-> 1]
    ELSE ExtractStep(
             ExtractLoop(messages, n - 1, conversation_hash, hashed_ip, model,
                         base_timestamp),
             messages[n], conversation_hash, hashed_ip, model, base_timestamp)

extract_turns_from_messages(messages, conversation_hash, hashed_ip, model, base_timestamp) ==
    ExtractLoop(messages, Len(messages), conversation_hash, hashed_ip, model,
                base_timestamp).turns

\* lines 132-139: the record's own timestamp when it has one that parses,
\* else one hour per index from 2024-01-01
BaseTimestampA(rec, i) ==
    IF rec.timestamp.present /\ rec.timestamp.parseable
    THEN rec.timestamp.ticks
    ELSE hours(i)

\* lines 152-155: turn["turn_id"] = turn_id_counter for each turn in order
NumberTurns(ts, counter) ==
    [k \in 1..Len(ts) |-> [turn_id |-> counter + k - 1] @@ ts[k]]

\* The body of the loop of lines 127-158 for one source record.  The turn
\* dicts are numbered in place, so turns holds the numbered rows.
ProcessRecordA(rec) ==
    LET conversation_hash == Get(rec.conversation_hash, "conv_" \o ToString(idx))
        hashed_ip == Get(rec.hashed_ip, "user_" \o ToString(idx))
        model == Get(rec.model, "unknown")
        base_timestamp == BaseTimestampA(rec, idx)
        extracted == extract_turns_from_messages(rec.messages, conversation_hash,
                                                 hashed_ip, model, base_timestamp)
        numbered == NumberTurns(extracted, turn_id_counter)
    IN /\ row' = rec
       /\ IF rec.messages # <<>>
          THEN /\ turns' = numbered
               /\ output_rows' = output_rows \o numbered
               /\ turn_id_counter' = turn_id_counter + Len(numbered)
          ELSE UNCHANGED <<turns, output_rows, turn_id_counter>>
       /\ idx' = idx + 1

\* lines 160-179: the table is written, then line 179 divides by
\* len(dataset)
FinishA ==
    /\ pc = "A_loop"
    /\ pc' = IF idx = 0 THEN "ZeroDivisionError" ELSE "A_done"
    /\ UNCHANGED <<output_rows, output_file>>
    /\ UNCHANGED flattenerVars
    /\ UNCHANGED <<input_file, fieldnames, conversations, single_turn, multi_turn,
                   target_single, target_multi, selected_sessions, rerun_file>>

-----------------------------------------------------------------------------
(* Flattener B: transform_huggingface_dataset.py.                          *)

MODELS == <<"gpt-4", "gpt-3.5-turbo", "claude-2", "claude-instant">>

\* the last index of range(1, 5)
LastPair == 4

\* the two ends of random.randint(100, 999)
UserNumbers == {100, 999}

RECURSIVE Zeros(_)
Zeros(k) == IF k <= 0 THEN "" ELSE "0" \o Zeros(k - 1)

\* f"{n:05d}"
Format05d(n) == Zeros(5 - Len(str(n))) \o ToString(n)

PCol(turn_num) == "P" \o ToString(turn_num)

RCol(turn_num) == "R" \o ToString(turn_num)

\* session_timestamp + timedelta(minutes=turn_num - 1)
TurnTimestampB(session_timestamp, turn_num) == session_timestamp + minutes(turn_num - 1)

\* mutant: turn_id_counter is advanced for a skipped pair too
PairStepCountSkipped(st, rec, turn_num, session_id, user_id, model, session_timestamp) ==
    LET p_col == PCol(turn_num)
        r_col == RCol(turn_num)
        emit == /\ p_col \in DOMAIN rec /\ r_col \in DOMAIN rec
                /\ rec[p_col] # <<>> /\ rec[r_col] # <<>>
                /\ strip(rec[p_col]) # <<>> /\ strip(rec[r_col]) # <<>>
    IN IF emit
       THEN [turns |-> Append(st.turns,
                [turn_id |-> st.turn_id_counter,
                 session_id |-> session_id,
                 user_id |-> user_id,
                 timestamp |-> strftime(TurnTimestampB(session_timestamp, turn_num)),
                 user_message |-> strip(rec[p_col]),
                 assistant_message |-> strip(rec[r_col]),
                 model |-> model]
                @@ generate_synthetic_metadata(strip(rec[p_col]), strip(rec[r_col]))),
             turn_id_counter |-> st.turn_id_counter + 1]
       ELSE [st EXCEPT !.turn_id_counter = @ + 1]

\* one pass of the loop of lines 106-132
PairStep(st, rec, turn_num, session_id, user_id, model, session_timestamp) ==
    LET p_col == PCol(turn_num)
        r_col == RCol(turn_num)
    IN IF /\ p_col \in DOMAIN rec /\ r_col \in DOMAIN rec
          /\ rec[p_col] # <<>> /\ rec[r_col] # <<>>
       THEN LET user_message == strip(rec[p_col])
                assistant_message == strip(rec[r_col])
            IN IF user_message # <<>> /\ assistant_message # <<>>
               THEN [turns |-> Append(st.turns,
                        [turn_id |-> st.turn_id_counter,
                         session_id |-> session_id,
                         user_id |-> user_id,
                         timestamp |->
                             strftime(TurnTimestampB(session_timestamp, turn_num)),
                         user_message |-> user_message,
                         assistant_message |-> assistant_message,
                         model |-> model]
                        @@ generate_synthetic_metadata(user_message, assistant_message)),
                     turn_id_counter |-> st.turn_id_counter + 1]
               ELSE st
       ELSE st

\* mutant: the loop breaks at the first pair it skips
RECURSIVE PairLoopStopAtGap(_, _, _, _, _, _, _)
PairLoopStopAtGap(rec, n, counter, session_id, user_id, model, session_timestamp) ==
    IF n = 0 THEN [turns |-> <<>>, turn_id_counter |-> counter]
    ELSE LET before == PairLoopStopAtGap(rec, n - 1, counter, session_id, user_id,
                                         model, session_timestamp)
         IN IF Len(before.turns) < n - 1 THEN before
            ELSE PairStep(before, rec, n, session_id, user_id, model, session_timestamp)

\* the loop over the pairs 1..n, from turn_id_counter = counter
RECURSIVE PairLoop(_, _, _, _, _, _, _)
PairLoop(rec, n, counter, session_id, user_id, model, session_timestamp) ==
    IF n = 0 THEN [turns |-> <<>>, turn_id_counter |-> counter]
    ELSE PairStep(
             PairLoop(rec, n - 1, counter, session_id, user_id, model, session_timestamp),
             rec, n, session_id, user_id, model, session_timestamp)

\* The body of the loop of lines 96-137 for one source record, with the
\* results of random.randint and random.choice.
ProcessRecordB(rec, user_number, model) ==
    LET session_id == "sess_" \o Format05d(idx + 1)
        user_id == "user_" \o ToString(user_number)
        session_timestamp == minutes(idx * 5)
        done == PairLoop(rec, LastPair, turn_id_counter, session_id, user_id, model,
                         session_timestamp)
    IN /\ row' = rec
       /\ turns' = done.turns
       /\ turn_id_counter' = done.turn_id_counter
       /\ output_rows' = output_rows \o done.turns
       /\ idx' = idx + 1

\* lines 139-158: the table is written, then line 158 divides by
\* len(dataset)
FinishB ==
    /\ pc = "B_loop"
    /\ pc' = IF idx = 0 THEN "ZeroDivisionError" ELSE "B_done"
    /\ UNCHANGED <<output_rows, output_file>>
    /\ UNCHANGED flattenerVars
    /\ UNCHANGED <<input_file, fieldnames, conversations, single_turn, multi_turn,
                   target_single, target_multi, selected_sessions, rerun_file>>

-----------------------------------------------------------------------------
(* Source records and the specifications of the flatteners.                *)

\* messages of one record at most
MaxMsgs == 4

NoTimestamp == [present |-> FALSE, parseable |-> FALSE, ticks |-> 0]

\* a timestamp field: missing, present but not ISO, or two hours and a tick
\* after the epoch
RecordTimestamps ==
    {NoTimestamp,
     [present |-> TRUE, parseable |-> FALSE, ticks |-> 0],
     [present |-> TRUE, parseable |-> TRUE, ticks |-> hours(2) + 1]}

\* every role with blank, plain and padded content
RichMessages ==
    [role : {"user", "assistant", "system"},
     content : {<<" ">>, <<"a">>, <<" ", "b", " ">>}]

\* the records on which extract_turns_from_messages is examined
RichRecordsA ==
    {[conversation_hash |-> "h1", hashed_ip |-> "ip1", model |-> "gpt-4",
      timestamp |-> NoTimestamp, messages |-> m] :
        m \in SeqsUpTo(RichMessages, MaxMsgs)}

User(text) == [role |-> "user", content |-> text]

Assistant(text) == [role |-> "assistant", content |-> text]

\* the message lists of the records of a whole run: none, one exchange, two
\* exchanges, and an exchange after an unanswered assistant message
LoopMessages ==
    {<<>>,
     <<User(<<"h", "i">>), Assistant(<<"h", "e", "l", "l", "o">>)>>,
     <<User(<<"a">>), Assistant(<<"b">>), User(<<"c">>), Assistant(<<"d">>)>>,
     <<Assistant(<<"x">>), User(<<" ">>), User(<<"a">>), Assistant(<<"b">>)>>}

\* the records of a whole run of flattener A: the identifying fields are all
\* there or all missing
LoopRecordsA ==
    {[conversation_hash |-> id[1], hashed_ip |-> id[2], model |-> id[3],
      timestamp |-> t, messages |-> m] :
        id \in {<<"h1", "ip1", "gpt-4">>, <<Absent, Absent, Absent>>},
        t \in RecordTimestamps,
        m \in LoopMessages}

\* a field of a record of flattener B: empty, blank, or padded text
FieldValues == {<<>>, <<" ">>, <<" ", "a", " ">>}

PairColumns == {PCol(n) : n \in 1..LastPair} \cup {RCol(n) : n \in 1..LastPair}

\* marks, in a choice of fields, a column the record does not have
Missing == <<"<missing>">>

\* the record with the chosen fields, with or without a P5
RecordB(choice, has_p5) ==
    LET present == {c \in DOMAIN choice : choice[c] # Missing}
    IN [c \in present \cup (IF has_p5 THEN {"P5"} ELSE {}) |->
           IF c = "P5" THEN <<"x">> ELSE choice[c]]

Text(c) == <<c>>

\* the records of a whole run of flattener B: no column, one pair, a gap at
\* the third pair, and all of P1..P5 and R1..R4
LoopRecordsB ==
    {<<>>,
     ("P1" :> Text("a")) @@ ("R1" :> Text("b")),
     ("P1" :> Text("a")) @@ ("R1" :> Text("b")) @@ ("P2" :> Text("c"))
        @@ ("R2" :> Text("d")) @@ ("P3" :> Text("e")) @@ ("R3" :> Text(" "))
        @@ ("P4" :> Text("g")) @@ ("R4" :> Text("h")),
     [c \in PairColumns \cup {"P5"} |-> Text("z")]}

\* the sampler's variables in a run of a flattener
SamplerIdle ==
    /\ input_file = NoFile
    /\ fieldnames = <<>>
    /\ conversations = EmptyDict
    /\ single_turn = <<>>
    /\ multi_turn = <<>>
    /\ target_single = TargetSingle
    /\ target_multi = TargetMulti
    /\ selected_sessions = {}
    /\ output_file = NoFile
    /\ rerun_file = NoFile

FlattenerStart ==
    /\ output_rows = <<>>
    /\ idx = 0
    /\ turn_id_counter = 1
    /\ turns = <<>>

\* flattener A on a dataset of one record
InitExtract ==
    /\ pc = "A_single"
    /\ row \in RichRecordsA
    /\ FlattenerStart
    /\ SamplerIdle

ExtractOne ==
    /\ pc = "A_single"
    /\ ProcessRecordA(row)
    /\ pc' = "A_single_done"
    /\ UNCHANGED samplerVars

NextExtract == ExtractOne

SpecExtract == InitExtract /\ [][NextExtract]_vars

\* flattener B on a dataset of one record: each of P1..R4 missing or with any
\* field value, with and without a P5
InitPairs ==
    /\ pc = "B_single"
    /\ \E choice \in [PairColumns -> FieldValues \cup {Missing}], has_p5 \in BOOLEAN :
          row = RecordB(choice, has_p5)
    /\ FlattenerStart
    /\ SamplerIdle

PairsOne ==
    /\ pc = "B_single"
    /\ \E user_number \in UserNumbers, model \in Range(MODELS) :
          ProcessRecordB(row, user_number, model)
    /\ pc' = "B_single_done"
    /\ UNCHANGED samplerVars

NextPairs == PairsOne

SpecPairs == InitPairs /\ [][NextPairs]_vars

\* a whole run of either flattener over at most MaxRecords records
InitFlatten ==
    /\ pc \in {"A_loop", "B_loop"}
    /\ row = <<>>
    /\ FlattenerStart
    /\ SamplerIdle

StepA ==
    /\ pc = "A_loop"
    /\ idx < MaxRecords
    /\ \E rec \in LoopRecordsA : ProcessRecordA(rec)
    /\ UNCHANGED pc
    /\ UNCHANGED samplerVars

StepB ==
    /\ pc = "B_loop"
    /\ idx < MaxRecords
    /\ \E rec \in LoopRecordsB, user_number \in UserNumbers, model \in Range(MODELS) :
          ProcessRecordB(rec, user_number, model)
    /\ UNCHANGED pc
    /\ UNCHANGED samplerVars

NextFlatten ==
    \/ StepA
    \/ FinishA
    \/ StepB
    \/ FinishB

SpecFlatten == InitFlatten /\ [][NextFlatten]_vars

-----------------------------------------------------------------------------
(* Properties of the sampler, stated on the files it reads and writes.     *)

\* the cell of line k of a file in the column named col
CellOf(file, k, col) == file.lines[k][IndexOf(file.header, col)]

SessionsIn(file) == {CellOf(file, k, "session_id") : k \in 1..Len(file.lines)}

LinesOfSession(file, s) == {k \in 1..Len(file.lines) : CellOf(file, k, "session_id") = s}

\* a line without its turn_id, as a mapping from column name to cell
Payload(file, k) ==
    [c \in Range(file.header) \ {"turn_id"} |-> CellOf(file, k, c)]

SingleSessionsIn(file) == {s \in SessionsIn(file) : Cardinality(LinesOfSession(file, s)) = 1}

MultiSessionsIn(file) == {s \in SessionsIn(file) : Cardinality(LinesOfSession(file, s)) >= 2}

\* the output file has been written
Written == pc \in {"written", "exit0", "ZeroDivisionError", "rerun_exit0",
                   "rerun_ZeroDivisionError"}

\* the turn_id the input gives the row that output line j carries
OriginalTurnId(j) ==
    LET k == CHOOSE k \in 1..Len(input_file.lines) :
                 Payload(input_file, k) = Payload(output_file, j)
    IN int(CellOf(input_file, k, "turn_id"))

\* C2: the written file holds exactly min(S, target) single-turn and
\* min(M, target) multi-turn sessions of the input, hence that many distinct
\* session ids in all; a pool no larger than its target is taken whole.
\* (TargetSingle and TargetMulti stand for the script's 300 and 200.)
C2_SampleCounts ==
    Written =>
        LET S == SingleSessionsIn(input_file)
            M == MultiSessionsIn(input_file)
            O == SessionsIn(output_file)
        IN /\ Cardinality(O \cap S) = Min(Cardinality(S), TargetSingle)
           /\ Cardinality(O \cap M) = Min(Cardinality(M), TargetMulti)
           /\ Cardinality(O) = Min(Cardinality(S), TargetSingle)
                                 + Min(Cardinality(M), TargetMulti)
           /\ (Cardinality(S) <= TargetSingle => S \subseteq O)
           /\ (Cardinality(M) <= TargetMulti => M \subseteq O)

\* C2 witness: a run that wrote its file from an input whose single-turn pool
\* exceeds the target, so that random.sample left a session out
C2_Witness ==
    /\ pc = "exit0"
    /\ Cardinality(SingleSessionsIn(input_file)) > TargetSingle
    /\ Cardinality(SessionsIn(output_file)) = TargetSingle
    /\ SessionsIn(output_file) # SessionsIn(input_file)

\* C3: every conversation of the written file is intact: each input line of
\* a session that appears in the output is in the output exactly once (up to
\* its turn_id), the output has no further line of that session, and no line
\* of a session that was not selected.
C3_Intact ==
    Written =>
        /\ \A s \in SessionsIn(output_file) :
              /\ \A k \in LinesOfSession(input_file, s) :
                    Cardinality({j \in 1..Len(output_file.lines) :
                        Payload(output_file, j) = Payload(input_file, k)}) = 1
              /\ Cardinality(LinesOfSession(output_file, s))
                    = Cardinality(LinesOfSession(input_file, s))
        /\ SessionsIn(output_file) \subseteq selected_sessions

\* C3 witness: two two-line conversations interleave in the input; the written
\* file holds one of them, whole, and nothing of the other
C3_Witness ==
    /\ pc = "exit0"
    /\ \E s \in SessionsIn(output_file) : LinesOfSession(input_file, s) = {1, 3}
    /\ \E s \in SessionsIn(input_file) \ SessionsIn(output_file) :
          LinesOfSession(input_file, s) = {2, 4}
    /\ Len(output_file.lines) = 2

\* C4: the written lines are in ascending order of their original numeric
\* turn_id and carry the turn ids 1, 2, ..., N in that order.
C4_SortedRenumbered ==
    Written =>
        /\ \A j \in 1..Len(output_file.lines) :
              CellOf(output_file, j, "turn_id") = str(j)
        /\ \A i, j \in 1..Len(output_file.lines) :
              i < j => OriginalTurnId(i) < OriginalTurnId(j)

\* C4 witness: a written file of three lines from two sessions whose rows
\* interleave in the input, the last of which had the two-digit turn id 10
C4_Witness ==
    /\ pc = "exit0"
    /\ Len(output_file.lines) = 3
    /\ OriginalTurnId(3) = 10
    /\ OriginalTurnId(1) # 1
    /\ CellOf(output_file, 1, "session_id") = CellOf(output_file, 3, "session_id")
    /\ CellOf(output_file, 1, "session_id") # CellOf(output_file, 2, "session_id")

\* C5: a second run on the same input writes the same file as the first,
\* whatever the orders in which the two runs iterate the selected sessions.
C5_Deterministic ==
    pc \in {"rerun_exit0", "rerun_ZeroDivisionError"} => rerun_file = output_file

\* C5 witness: both runs are over, with three sessions selected and four
\* lines written
C5_Witness ==
    /\ pc = "rerun_exit0"
    /\ Cardinality(selected_sessions) = 3
    /\ Len(rerun_file.lines) = 4

\* C6: an empty or under-populated pool is no error: the run never ends in an
\* exception.
C6_NoError ==
    pc \notin {"ValueError", "ZeroDivisionError", "rerun_ZeroDivisionError"}

-----------------------------------------------------------------------------
(* Properties of the flatteners.                                           *)

\* message i of the processed record has the role and non-blank content
IsMessage(i, role) ==
    /\ row.messages[i].role = role
    /\ strip(row.messages[i].content) # <<>>

\* user message i is the one assistant message j answers: the latest user
\* message before j, with no assistant message in between
Answers(i, j) ==
    /\ i < j
    /\ IsMessage(i, "user")
    /\ IsMessage(j, "assistant")
    /\ \A k \in (i + 1)..(j - 1) : ~IsMessage(k, "user") /\ ~IsMessage(k, "assistant")

Answering == {j \in 1..Len(row.messages) : \E i \in 1..Len(row.messages) : Answers(i, j)}

\* C1: extract_turns_from_messages emits, in message order, exactly the pairs
\* (u, a) of a non-blank assistant message a and the latest non-blank user
\* message u before it, provided no other non-blank assistant message lies
\* between them; each turn carries the two trimmed contents.
C1_ExtractPairs ==
    pc = "A_single_done" =>
        /\ Len(turns) = Cardinality(Answering)
        /\ \A i, j \in 1..Len(row.messages) :
              Answers(i, j) =>
                  LET n == Cardinality({k \in Answering : k <= j})
                  IN /\ turns[n].user_message = strip(row.messages[i].content)
                     /\ turns[n].assistant_message = strip(row.messages[j].content)

\* C1 witness: user "a", user " b ", a blank assistant message, assistant "a":
\* one turn, pairing "b" with "a"
C1_Witness ==
    /\ pc = "A_single_done"
    /\ row.messages = <<User(<<"a">>), User(<<" ", "b", " ">>), Assistant(<<" ">>),
                        Assistant(<<"a">>)>>
    /\ Len(turns) = 1
    /\ turns[1].user_message = <<"b">>
    /\ turns[1].assistant_message = <<"a">>

\* pair i of the processed record has a prompt and a response that are
\* present and non-blank
HasPair(i) ==
    /\ PCol(i) \in DOMAIN row
    /\ RCol(i) \in DOMAIN row
    /\ strip(row[PCol(i)]) # <<>>
    /\ strip(row[RCol(i)]) # <<>>

\* C7: flattener B emits a turn for pair i of 1..4 exactly when Pi and Ri are
\* both present and non-blank, whatever the other pairs are; the turns come in
\* increasing i and carry the trimmed Pi and Ri; P5 yields nothing.
C7_Pairs ==
    pc = "B_single_done" =>
        LET valid == {i \in 1..4 : HasPair(i)}
        IN /\ Len(turns) = Cardinality(valid)
           /\ \A i \in valid :
                 LET n == Cardinality({k \in valid : k <= i})
                 IN /\ turns[n].user_message = strip(row[PCol(i)])
                    /\ turns[n].assistant_message = strip(row[RCol(i)])
                    /\ turns[n].turn_id = n

\* C7 witness: P1/R1 and P3/R3 hold text, R2 is blank, P4 is missing and
\* there is a P5: two turns, from the pairs 1 and 3
C7_Witness ==
    /\ pc = "B_single_done"
    /\ HasPair(1) /\ HasPair(3)
    /\ "R2" \in DOMAIN row /\ row["R2"] = <<" ">>
    /\ "P4" \notin DOMAIN row
    /\ "P5" \in DOMAIN row
    /\ Len(turns) = 2
    /\ turns[2].user_message = strip(row["P3"])

\* C8: after any number of source records, the accumulated rows carry the turn
\* ids 1, 2, ..., K in emission order and the counter is K + 1.
C8_DenseTurnIds ==
    /\ \A k \in 1..Len(output_rows) : output_rows[k].turn_id = k
    /\ turn_id_counter = Len(output_rows) + 1

\* C8 witness: three records read, the last of which gave no turn, with rows
\* of two sessions accumulated
C8_Witness ==
    /\ idx = 3
    /\ Len(output_rows) >= 4
    /\ row = <<>>
    /\ \E i, j \in 1..Len(output_rows) :
          output_rows[i].session_id # output_rows[j].session_id

=============================================================================
